---- MODULE Spec2Model ----
(***************************************************************************)
(* Latent substitution engine of BachLatentNavigator:                      *)
(*   src/src/logic/latentStrategies.js  (dictionary, strategies,           *)
(*                                       substitutePhrase)                 *)
(*   src/src/logic/audioPlayback.js     (lines 214-330: distance.js, the   *)
(*                                       vector primitives and knn)        *)
(*                                                                         *)
(* Numbers.  Latent coordinates are drawn from small even integers, on     *)
(* which every arithmetic step of the code except Math.sqrt and Math.acos  *)
(* is exact in IEEE doubles (scale by 0.5 is exact halving).  euclidean    *)
(* returns Math.sqrt(sumOfSquares); the model carries sumOfSquares itself, *)
(* which orders the same way because sqrt is strictly increasing.  An      *)
(* angle acos(c) is carried as the exact cosine data (dot, |a|^2, |b|^2)   *)
(* and compared by cross multiplication, acos being strictly decreasing.   *)
(*                                                                         *)
(* Exceptions.  An operator that can throw returns a record                *)
(*   [err |-> "none" | "DimensionMismatch" | "TypeError", val |-> ...].    *)
(***************************************************************************)
EXTENDS Integers, Sequences, FiniteSets, TLC

VARIABLES
    globalChordDict,   \* latentStrategies.js:6  module-level dictionary
    pc,                \* "boot" | "idle" | "returned": position of the caller
    op,                \* which exported function was called last
    args,              \* the arguments of that call
    ret,               \* what the call returned (or the error it threw)
    originalPhrase,    \* part_003:44  chord ids of the phrase the application shows
    selectedChordIndices, \* part_003:46  positions selected for substitution
    transport          \* audioPlayback.js  Tone.Transport: its state and pending events

vars == <<globalChordDict, pc, op, args, ret,
          originalPhrase, selectedChordIndices, transport>>

appVars == <<originalPhrase, selectedChordIndices, transport>>

----------------------------------------------------------------------------
(* Bounds of the model *)

MaxDict == 4       \* chords in a dictionary
MaxPhrase == 5     \* chord identifiers in a phrase
MaxK == 2          \* largest params.k / k passed by a caller
MaxSessionDict == 2 \* chords in a dictionary of a session with reloads
MaxCoord == 2      \* largest absolute coordinate of a measured vector
MaxDim == 2        \* largest length of a measured vector

(* params.k || 5 *)
DefaultK == 5

----------------------------------------------------------------------------
(* JavaScript values *)

\* `undefined`: what Array.prototype.find and an out-of-range index yield.
undefined == [undefined |-> TRUE]

\* `null`: the initial value of the context fields of the details record.
null == [null |-> TRUE]

\* `null` where the field otherwise holds a chord id (ids are strings, and
\* TLC compares a string only with a string).
nullId == "null"

\* NaN, as produced by  number - undefined  in subtract / add.
NaN == "NaN"

Truthy(v) == v # undefined /\ v # null

Ok(v) == [err |-> "none", val |-> v]
Throw(e) == [err |-> e, val |-> undefined]

Min(a, b) == IF a < b THEN a ELSE b
Max(a, b) == IF a > b THEN a ELSE b

\* Array.prototype.slice(start, end) on a 1-based sequence (0-based arguments).
Slice(s, start, end) ==
    LET len == Len(s)
        from == IF start < 0 THEN Max(len + start, 0) ELSE Min(start, len)
        to == IF end < 0 THEN Max(len + end, 0) ELSE Min(end, len)
    IN  IF from < to THEN SubSeq(s, from + 1, to) ELSE <<>>

----------------------------------------------------------------------------
(* distance.js: vector primitives (audioPlayback.js:214-301) *)

RECURSIVE SumTo(_, _)
\* sum of f[1..n]: the accumulation loops / reduce calls of distance.js
SumTo(f, n) == IF n = 0 THEN 0 ELSE SumTo(f, n - 1) + f[n]

euclideanMutSigned(a, b) ==
    IF Len(a) # Len(b)
    THEN Throw("DimensionMismatch")
    ELSE Ok(SumTo([i \in 1..Len(a) |-> a[i] - b[i]], Len(a)))

euclideanMutNoCheck(a, b) ==
    Ok(SumTo([i \in 1..Min(Len(a), Len(b)) |-> (a[i] - b[i]) * (a[i] - b[i])],
             Min(Len(a), Len(b))))

\* euclidean(a, b): throws on unequal lengths, else sqrt(sumOfSquares);
\* val is sumOfSquares (see the note on numbers above).
euclidean(a, b) ==
    IF Len(a) # Len(b)
    THEN Throw("DimensionMismatch")
    ELSE Ok(SumTo([i \in 1..Len(a) |-> (a[i] - b[i]) * (a[i] - b[i])], Len(a)))

\* a.map((val, i) => val - b[i]): no length check; b[i] is undefined past
\* the end of b, and  number - undefined  is NaN.
subtract(a, b) ==
    [i \in 1..Len(a) |->
        IF i <= Len(b) THEN a[i] - b[i] ELSE NaN]

\* v.map(val => val * t) for t = 0.5, the only factor the code passes.
\* Exact on the even coordinates the dictionaries hold.
scaleHalf(v) == [i \in 1..Len(v) |-> v[i] \div 2]

\* a.map((val, i) => val + b[i])
add(a, b) ==
    [i \in 1..Len(a) |->
        IF i <= Len(b) THEN a[i] + b[i] ELSE NaN]

\* magnitude(v) squared: v.reduce((sum, val) => sum + val * val, 0)
magnitudeSq(v) == SumTo([i \in 1..Len(v) |-> v[i] * v[i]], Len(v))

\* a.reduce((sum, val, i) => sum + val * b[i], 0)
dotProduct(a, b) == SumTo([i \in 1..Len(a) |-> a[i] * b[i]], Len(a))

\* The value Infinity (the initial bestAngle, and angleBetween's sentinel).
Infinity == [inf |-> TRUE, dot |-> 0, den |-> 1]

angleBetweenMutZeroAngle(a, b) ==
    IF magnitudeSq(a) = 0 \/ magnitudeSq(b) = 0
    THEN [inf |-> FALSE, dot |-> 1, den |-> 1]
    ELSE [inf |-> FALSE, dot |-> dotProduct(a, b),
          den |-> magnitudeSq(a) * magnitudeSq(b)]

\* angleBetween(a, b): Infinity when either magnitude is 0, else
\* acos(clamp(dot / (magA * magB))), carried as dot and den = (magA*magB)^2.
\* Only called on equal-length integer vectors (see knnAngularAlignment).
angleBetween(a, b) ==
    IF magnitudeSq(a) = 0 \/ magnitudeSq(b) = 0
    THEN Infinity
    ELSE [inf |-> FALSE, dot |-> dotProduct(a, b),
          den |-> magnitudeSq(a) * magnitudeSq(b)]

\* cos x > cos y for two finite angles, i.e.
\* x.dot / sqrt(x.den) > y.dot / sqrt(y.den), by cross multiplication.
CosGreater(x, y) ==
    IF x.dot >= 0 /\ y.dot < 0 THEN TRUE
    ELSE IF x.dot < 0 /\ y.dot >= 0 THEN FALSE
    ELSE IF x.dot >= 0
         THEN x.dot * x.dot * y.den > y.dot * y.dot * x.den
         ELSE x.dot * x.dot * y.den < y.dot * y.dot * x.den

AngleLessMutOrEqual(x, y) ==
    IF x.inf THEN FALSE
    ELSE IF y.inf THEN TRUE
    ELSE ~CosGreater(y, x)

\* The comparison  angle < bestAngle  of knnAngularAlignment.
AngleLess(x, y) ==
    IF x.inf THEN FALSE
    ELSE IF y.inf THEN TRUE
    ELSE CosGreater(x, y)

----------------------------------------------------------------------------
(* distance.js: knn (audioPlayback.js:311-330) *)

WithDistanceMutDropsZ(chord, d) ==
    [id |-> chord.id, z |-> <<>>, distance |-> d]

\* { ...chord, distance: d }
WithDistance(chord, d) ==
    [f \in DOMAIN chord \cup {"distance"} |->
        IF f = "distance" THEN d ELSE chord[f]]

InsertStableMutTiesReversed(sorted, x) ==
    LET n == Cardinality({j \in 1..Len(sorted) : sorted[j].distance < x.distance})
    IN  SubSeq(sorted, 1, n) \o <<x>> \o SubSeq(sorted, n + 1, Len(sorted))

\* Position at which Array.prototype.sort's stable merge leaves x among the
\* already ordered `sorted`: after every element whose distance is <= x's.
InsertStable(sorted, x) ==
    LET n == Cardinality({j \in 1..Len(sorted) : sorted[j].distance <= x.distance})
    IN  SubSeq(sorted, 1, n) \o <<x>> \o SubSeq(sorted, n + 1, Len(sorted))

RECURSIVE SortByDistance(_)
\* distances.sort((a, b) => a.distance - b.distance): ascending, stable.
SortByDistance(s) ==
    IF s = <<>> THEN <<>>
    ELSE InsertStable(SortByDistance(SubSeq(s, 1, Len(s) - 1)), s[Len(s)])

\* allLatents.map(chord => ({...chord, distance: euclidean(point, chord.z)})):
\* throws as soon as one chord's z has another length than point.
MapDistances(point, allLatents) ==
    IF \E j \in 1..Len(allLatents) :
            euclidean(point, allLatents[j].z).err # "none"
    THEN Throw("DimensionMismatch")
    ELSE Ok([j \in 1..Len(allLatents) |->
                WithDistance(allLatents[j],
                             euclidean(point, allLatents[j].z).val)])

knnMutKeepsFirst(targetZ, allLatents, k) ==
    LET distances == MapDistances(targetZ, allLatents)
    IN  IF distances.err # "none" THEN distances
        ELSE Ok(Slice(SortByDistance(distances.val), 0, k))

knnMutSliceOffByOne(targetZ, allLatents, k) ==
    LET distances == MapDistances(targetZ, allLatents)
    IN  IF distances.err # "none" THEN distances
        ELSE Ok(Slice(SortByDistance(distances.val), 1, k))

\* knn(targetZ, allLatents, k) with the default metric 'euclidean' (no caller
\* passes another): sort by distance, drop the first, keep the next k.
knn(targetZ, allLatents, k) ==
    LET distances == MapDistances(targetZ, allLatents)
    IN  IF distances.err # "none" THEN distances
        ELSE Ok(Slice(SortByDistance(distances.val), 1, k + 1))

\* arr[j] for a 0-based index j: undefined outside the array.
At(arr, j) == IF j >= 0 /\ j < Len(arr) THEN arr[j + 1] ELSE undefined

----------------------------------------------------------------------------
(* latentStrategies.js *)

getChordByIdMutLast(id) ==
    LET hits == {j \in 1..Len(globalChordDict) : globalChordDict[j].id = id}
    IN  IF hits = {} THEN undefined
        ELSE globalChordDict[CHOOSE j \in hits : \A h \in hits : j >= h]

\* globalChordDict.find(chord => chord.id === id): the first match in
\* dictionary order, undefined when there is none.  (The dictionary is always
\* an array here, so the `return null` branch is not taken.)
getChordById(id) ==
    LET hits == {j \in 1..Len(globalChordDict) : globalChordDict[j].id = id}
    IN  IF hits = {} THEN undefined
        ELSE globalChordDict[CHOOSE j \in hits : \A h \in hits : j <= h]

knnSubstitutionMutSecond(B, k) ==
    IF B = undefined THEN Throw("TypeError")
    ELSE LET neighbors == knn(B.z, globalChordDict, k)
         IN  IF neighbors.err # "none" THEN neighbors
             ELSE IF Truthy(At(neighbors.val, 1))
                  THEN Ok(At(neighbors.val, 1).id)
                  ELSE Ok(B.id)

\* knnSubstitution(B, k): id of neighbors[0], or B.id when there is none.
knnSubstitution(B, k) ==
    IF B = undefined THEN Throw("TypeError")
    ELSE LET neighbors == knn(B.z, globalChordDict, k)
         IN  IF neighbors.err # "none" THEN neighbors
             ELSE IF Truthy(At(neighbors.val, 0))
                  THEN Ok(At(neighbors.val, 0).id)
                  ELSE Ok(B.id)

linearInterpolationMutDropFirst(A, C) ==
    IF A = undefined \/ C = undefined THEN Throw("TypeError")
    ELSE LET interpolatedPoint == add(scaleHalf(A.z), scaleHalf(C.z))
             distances == MapDistances(interpolatedPoint, globalChordDict)
         IN  IF distances.err # "none" THEN distances
             ELSE LET nearestChord == At(SortByDistance(distances.val), 1)
                  IN  IF Truthy(nearestChord)
                      THEN Ok([id |-> nearestChord.id,
                               geometricPoint |-> interpolatedPoint])
                      ELSE Ok([id |-> C.id,
                               geometricPoint |-> interpolatedPoint])

\* linearInterpolation(A, C): the chord nearest to 0.5*A.z + 0.5*C.z over the
\* whole dictionary, and that point.
linearInterpolation(A, C) ==
    IF A = undefined \/ C = undefined THEN Throw("TypeError")
    ELSE LET interpolatedPoint == add(scaleHalf(A.z), scaleHalf(C.z))
             distances == MapDistances(interpolatedPoint, globalChordDict)
         IN  IF distances.err # "none" THEN distances
             ELSE LET nearestChord == At(SortByDistance(distances.val), 0)
                  IN  IF Truthy(nearestChord)
                      THEN Ok([id |-> nearestChord.id,
                               geometricPoint |-> interpolatedPoint])
                      ELSE Ok([id |-> C.id,
                               geometricPoint |-> interpolatedPoint])

RECURSIVE AngularScan(_, _, _, _)
\* The forEach of knnAngularAlignment over neighbors[1..n], as the pair
\* <<bestAngle, bestCandidate>> it leaves behind.
AngularScan(neighbors, n, A, vectorAB) ==
    IF n = 0 THEN [bestAngle |-> Infinity, bestCandidate |-> null]
    ELSE LET before == AngularScan(neighbors, n - 1, A, vectorAB)
             candidate == neighbors[n]
             vectorAC == subtract(candidate.z, A.z)
             angle == angleBetween(vectorAB, vectorAC)
         IN  IF AngleLess(angle, before.bestAngle)
             THEN [bestAngle |-> angle, bestCandidate |-> candidate]
             ELSE before

\* knnAngularAlignment(A, B, k)
knnAngularAlignment(A, B, k) ==
    IF B = undefined THEN Throw("TypeError")
    ELSE LET neighbors == knn(B.z, globalChordDict, k)
         IN  IF neighbors.err # "none" THEN neighbors
             ELSE IF A = undefined THEN Throw("TypeError")
             ELSE LET vectorAB == subtract(B.z, A.z)
                      scan == AngularScan(neighbors.val, Len(neighbors.val),
                                          A, vectorAB)
                  IN  IF Truthy(scan.bestCandidate)
                      THEN Ok([id |-> scan.bestCandidate.id,
                               kNeighbors |-> neighbors.val])
                      ELSE Ok([id |-> B.id, kNeighbors |-> neighbors.val])

\* originalPhraseIds.map(id => getChordById(id)).filter(c => c)
FullPhrase(originalPhraseIds) ==
    SelectSeq([j \in 1..Len(originalPhraseIds) |->
                  getChordById(originalPhraseIds[j])], Truthy)

GateMutAnySelection(targetIndices, phraseLength) ==
    /\ Len(targetIndices) >= 1
    /\ targetIndices[1] > 0
    /\ targetIndices[1] < phraseLength - 1

\* targetIndices.length === 1 && i > 0 && i < phraseLength - 1
Gate(targetIndices, phraseLength) ==
    /\ Len(targetIndices) = 1
    /\ targetIndices[1] > 0
    /\ targetIndices[1] < phraseLength - 1

ContextValidMutNoCheck(A, B, C) == TRUE

\* if (A && B && C)
ContextValid(A, B, C) == Truthy(A) /\ Truthy(B) /\ Truthy(C)

\* params.k || 5
EffectiveK(paramsK) == IF paramsK = 0 THEN DefaultK ELSE paramsK

EmptyDetailsMutReused(strategy) ==
    IF pc = "returned" /\ op = "substitutePhrase" /\ ret.err = "none"
    THEN [ret.val.substitutionDetails EXCEPT !.strategy = strategy]
    ELSE [strategy |-> strategy, originalA |-> null, originalB |-> null,
          originalC |-> null, substitutedChordId |-> nullId,
          geometricPoints |-> <<>>, kNeighbors |-> <<>>]

\* The details record as initialised at lines 144-152: a new object in
\* every call.
EmptyDetails(strategy) ==
    [strategy |-> strategy, originalA |-> null, originalB |-> null,
     originalC |-> null, substitutedChordId |-> nullId,
     geometricPoints |-> <<>>, kNeighbors |-> <<>>]

DispatchMutUnknownWritesNothing(strategy, A, B, C, k) ==
    IF B = undefined THEN Throw("TypeError")
    ELSE IF strategy = "knn" THEN
        LET id == knnSubstitution(B, k)
            again == knn(B.z, globalChordDict, k)
        IN  IF id.err # "none" THEN id
            ELSE IF again.err # "none" THEN again
            ELSE Ok([id |-> id.val, geometricPoints |-> <<>>,
                     kNeighbors |-> again.val])
    ELSE IF strategy = "linear" THEN
        LET result == linearInterpolation(A, C)
        IN  IF result.err # "none" THEN result
            ELSE Ok([id |-> result.val.id,
                     geometricPoints |-> <<result.val.geometricPoint>>,
                     kNeighbors |-> <<>>])
    ELSE IF strategy = "angular" THEN
        LET result == knnAngularAlignment(A, B, k)
        IN  IF result.err # "none" THEN result
            ELSE Ok([id |-> result.val.id, geometricPoints |-> <<>>,
                     kNeighbors |-> result.val.kNeighbors])
    ELSE Ok([id |-> nullId, geometricPoints |-> <<>>, kNeighbors |-> <<>>])

\* The branch taken once A, B and C passed the check (lines 167-187):
\* <<substitutionResult.id, geometricPoints, kNeighbors>> or the error.
Dispatch(strategy, A, B, C, k) ==
    IF B = undefined THEN Throw("TypeError")
    ELSE IF strategy = "knn" THEN
        LET id == knnSubstitution(B, k)
            again == knn(B.z, globalChordDict, k)
        IN  IF id.err # "none" THEN id
            ELSE IF again.err # "none" THEN again
            ELSE Ok([id |-> id.val, geometricPoints |-> <<>>,
                     kNeighbors |-> again.val])
    ELSE IF strategy = "linear" THEN
        LET result == linearInterpolation(A, C)
        IN  IF result.err # "none" THEN result
            ELSE Ok([id |-> result.val.id,
                     geometricPoints |-> <<result.val.geometricPoint>>,
                     kNeighbors |-> <<>>])
    ELSE IF strategy = "angular" THEN
        LET result == knnAngularAlignment(A, B, k)
        IN  IF result.err # "none" THEN result
            ELSE Ok([id |-> result.val.id, geometricPoints |-> <<>>,
                     kNeighbors |-> result.val.kNeighbors])
    ELSE Ok([id |-> B.id, geometricPoints |-> <<>>, kNeighbors |-> <<>>])

\* substitutePhrase(originalPhraseIds, targetIndices, strategy, {k: paramsK})
substitutePhrase(originalPhraseIds, targetIndices, strategy, paramsK) ==
    LET fullPhrase == FullPhrase(originalPhraseIds)
        phraseLength == Len(originalPhraseIds)
        k == EffectiveK(paramsK)
        declined == Ok([generatedPhraseIds |-> originalPhraseIds,
                        substitutionDetails |-> EmptyDetails(strategy)])
    IN  IF ~Gate(targetIndices, phraseLength) THEN declined
        ELSE LET i == targetIndices[1]
                 A == At(fullPhrase, i - 1)
                 B == At(fullPhrase, i)
                 C == At(fullPhrase, i + 1)
             IN  IF ~ContextValid(A, B, C) THEN declined
                 ELSE LET r == Dispatch(strategy, A, B, C, k)
                      IN  IF r.err # "none" THEN r
                          ELSE Ok([generatedPhraseIds |->
                                      [originalPhraseIds EXCEPT ![i + 1] = r.val.id],
                                   substitutionDetails |->
                                      [strategy |-> strategy,
                                       originalA |-> A,
                                       originalB |-> B,
                                       originalC |-> C,
                                       substitutedChordId |-> r.val.id,
                                       geometricPoints |-> r.val.geometricPoints,
                                       kNeighbors |-> r.val.kNeighbors]])

----------------------------------------------------------------------------
(* Inputs *)

\* The chords dictionaries are built from, in the order a dictionary lists
\* them.  "d" lies on "a" (equal vectors, distinct ids), the second "a"
\* repeats an id, and "e" has a vector of another length (a malformed row).
ChordPool ==
    << [id |-> "a", z |-> <<0, 0>>],
       [id |-> "b", z |-> <<2, 0>>],
       [id |-> "c", z |-> <<0, 2>>],
       [id |-> "d", z |-> <<0, 0>>],
       [id |-> "a", z |-> <<4, 0>>],
       [id |-> "e", z |-> <<2>>] >>

\* The pool chords at the positions in S, in pool order.
Pick(S) ==
    [i \in 1..Cardinality(S) |->
        ChordPool[CHOOSE p \in S : Cardinality({q \in S : q < p}) = i - 1]]

\* Every selection of up to MaxDict pool chords.
Dictionaries ==
    { Pick(S) : S \in { T \in SUBSET (1..Len(ChordPool)) : Cardinality(T) <= MaxDict } }

PhraseIds == {"a", "b", "c"}

Phrases == UNION { [1..n -> PhraseIds] : n \in 0..MaxPhrase }

\* No selection, one selected index (in range or past the end), two selected.
TargetLists ==
    {<<>>} \cup { <<i>> : i \in 0..(MaxPhrase - 1) } \cup { <<1, 2>> }

\* The three strategies and a name the dispatch does not know.
Strategies == {"knn", "linear", "angular", "nearest"}

\* params.k: negative, zero and positive.
Ks == (0 - 2)..MaxK

\* substitutePhrase requests.  Short phrases are combined with every target
\* list, strategy and k; the longer phrases (where unknown identifiers can
\* sit in front of a whole context window) with every single target at
\* k = 1, under the strategy that reads most of the context and under the
\* unknown one.
Requests ==
    { [phrase |-> p, targets |-> t, strategy |-> s, k |-> k] :
        p \in { q \in Phrases : Len(q) <= 3 }, t \in TargetLists,
        s \in Strategies, k \in Ks }
    \cup
    { [phrase |-> p, targets |-> t, strategy |-> s, k |-> 1] :
        p \in Phrases, t \in { u \in TargetLists : Len(u) = 1 },
        s \in {"angular", "nearest"} }

\* k of a direct knn call: what a caller passes, and the default
\* substitutePhrase passes on.
KnnKs == Ks \cup {DefaultK}

\* The dictionaries of a session, and its requests: every three-chord
\* phrase with the middle chord selected, under every strategy.
SessionDictionaries == { d \in Dictionaries : Len(d) <= MaxSessionDict }

SessionRequests ==
    { [phrase |-> p, targets |-> <<1>>, strategy |-> s, k |-> 1] :
        p \in [1..3 -> PhraseIds], s \in Strategies }
    \cup
    { [phrase |-> <<"a", "b", "c">>, targets |-> t, strategy |-> s, k |-> 1] :
        t \in {<<>>, <<0>>, <<2>>, <<1, 2>>}, s \in {"knn", "nearest"} }
    \cup
    { [phrase |-> <<"c">> \o p, targets |-> <<2>>, strategy |-> "linear",
       k |-> 1] : p \in [1..4 -> {"a", "b"}] }

\* params.k of a call made again with another k.
VariedKs == {0, MaxK}

\* Identifiers looked up directly: every identifier of the pool.
LookupIds == { ChordPool[p].id : p \in 1..Len(ChordPool) }

\* Every integer vector of up to MaxDim coordinates within MaxCoord of 0.
MetricVectors ==
    UNION { [1..n -> (0 - MaxCoord)..MaxCoord] : n \in 1..MaxDim }

\* Vectors passed to a direct knn, euclidean, subtract or add call: every
\* pool vector (two lengths) and one that no chord has.
Vectors == { ChordPool[p].z : p \in 1..Len(ChordPool) } \cup { <<2, 2>> }

----------------------------------------------------------------------------
(* The state machine *)

Init ==
    /\ globalChordDict = <<>>
    /\ pc = "boot"
    /\ op = "none"
    /\ args = <<>>
    /\ ret = <<>>
    /\ originalPhrase = <<>>
    /\ selectedChordIndices = <<>>
    /\ transport = [state |-> "stopped", events |-> <<>>]

SetChordDictMutKeepLoaded(dict) ==
    /\ globalChordDict' = IF globalChordDict = <<>> THEN dict ELSE globalChordDict
    /\ pc' = "idle"
    /\ op' = "setChordDict"
    /\ args' = [dict |-> dict, replaced |-> globalChordDict]
    /\ ret' = Ok(undefined)
    /\ UNCHANGED appVars

\* setChordDict(dict): globalChordDict = dict, unconditionally and without
\* looking at dict.  args keeps what was passed and what it replaced.
SetChordDict(dict) ==
    /\ globalChordDict' = dict
    /\ pc' = "idle"
    /\ op' = "setChordDict"
    /\ args' = [dict |-> dict, replaced |-> globalChordDict]
    /\ ret' = Ok(undefined)
    /\ UNCHANGED appVars

\* One call getChordById(id).
GetChordById(id) ==
    /\ pc \in {"idle", "returned"}
    /\ ret' = Ok(getChordById(id))
    /\ args' = [id |-> id]
    /\ op' = "getChordById"
    /\ pc' = "returned"
    /\ UNCHANGED globalChordDict
    /\ UNCHANGED appVars

ArrayAfterCallMutAlias(originalPhraseIds, generatedPhraseIds) ==
    generatedPhraseIds

\* What the caller's array holds after the call: substitutePhrase writes to
\* the spread copy of line 140 only.
ArrayAfterCall(originalPhraseIds, generatedPhraseIds) == originalPhraseIds

DictionaryAfterRankingMutInPlace(allLatents, point) ==
    LET distances == MapDistances(point, allLatents)
    IN  IF distances.err = "none" THEN SortByDistance(distances.val)
        ELSE allLatents

\* What the dictionary holds after its chords were ranked from point: map
\* builds a new array of copies { ...chord, distance }, and sort reorders
\* that array.
DictionaryAfterRanking(allLatents, point) == allLatents

\* The point a substitutePhrase call that returned r ranked the dictionary
\* from: B.z under 'knn' and 'angular', the interpolated point under
\* 'linear'; <<>> when it ranked nothing.
RankingPoint(r) ==
    IF r.err # "none" THEN <<>>
    ELSE LET details == r.val.substitutionDetails
         IN  IF details.substitutedChordId = nullId THEN <<>>
             ELSE IF details.strategy = "linear" /\ details.geometricPoints # <<>>
                  THEN details.geometricPoints[1]
             ELSE IF details.strategy \in {"knn", "angular"}
                     /\ details.originalB # null
                  THEN details.originalB.z
             ELSE <<>>

\* One call substitutePhrase(phrase, targets, strategy, {k}).
SubstitutePhrase(phrase, targets, strategy, k) ==
    /\ pc \in {"idle", "returned"}
    /\ \E r \in {substitutePhrase(phrase, targets, strategy, k)} :
          /\ ret' = r
          /\ args' = [originalPhraseIds |-> phrase,
                      targetIndices |-> targets,
                      strategy |-> strategy,
                      k |-> k,
                      phraseAfter |->
                         IF r.err = "none"
                         THEN ArrayAfterCall(phrase, r.val.generatedPhraseIds)
                         ELSE phrase]
          /\ \E point \in {RankingPoint(r)} :
                globalChordDict' = DictionaryAfterRanking(globalChordDict, point)
    /\ op' = "substitutePhrase"
    /\ pc' = "returned"
    /\ UNCHANGED appVars

\* The call that has just returned, made once more by the same caller: the
\* same array (as the first call left it), targets, strategy and k, on the
\* dictionary as the first call left it.  args keeps the phrase given to the
\* first call and what it returned.
RepeatSubstitutePhrase ==
    /\ pc = "returned"
    /\ op = "substitutePhrase"
    /\ \E r \in {substitutePhrase(args.phraseAfter, args.targetIndices,
                                  args.strategy, args.k)} :
          /\ ret' = r
          /\ \E point \in {RankingPoint(r)} :
                globalChordDict' = DictionaryAfterRanking(globalChordDict, point)
    /\ args' = [originalPhraseIds |-> args.phraseAfter,
                targetIndices |-> args.targetIndices,
                strategy |-> args.strategy,
                k |-> args.k,
                given |-> args.originalPhraseIds,
                first |-> ret]
    /\ op' = "substitutePhrase"
    /\ pc' = "repeated"
    /\ UNCHANGED appVars

\* The call that has just returned, made again by the same caller with
\* another identifier b at the target's place and another k.  args keeps
\* the phrase and k given to the first call and what it returned.
VarySubstitutePhrase(b, k) ==
    /\ pc = "returned"
    /\ op = "substitutePhrase"
    /\ Len(args.targetIndices) = 1
    /\ args.targetIndices[1] < Len(args.phraseAfter)
    /\ \E r \in {substitutePhrase(
                      [args.phraseAfter EXCEPT ![args.targetIndices[1] + 1] = b],
                      args.targetIndices, args.strategy, k)} :
          /\ ret' = r
          /\ \E point \in {RankingPoint(r)} :
                globalChordDict' = DictionaryAfterRanking(globalChordDict, point)
    /\ args' = [originalPhraseIds |->
                   [args.phraseAfter EXCEPT ![args.targetIndices[1] + 1] = b],
                targetIndices |-> args.targetIndices,
                strategy |-> args.strategy,
                k |-> k,
                given |-> args.originalPhraseIds,
                givenK |-> args.k,
                first |-> ret]
    /\ op' = "substitutePhrase"
    /\ pc' = "varied"
    /\ UNCHANGED appVars

\* One call knn(targetZ, globalChordDict, k).
Knn(targetZ, k) ==
    /\ pc \in {"idle", "returned"}
    /\ ret' = knn(targetZ, globalChordDict, k)
    /\ globalChordDict' = DictionaryAfterRanking(globalChordDict, targetZ)
    /\ args' = [targetZ |-> targetZ, k |-> k]
    /\ op' = "knn"
    /\ pc' = "returned"
    /\ UNCHANGED appVars

\* One call euclidean(a, b).
Euclidean(a, b) ==
    /\ pc \in {"idle", "returned"}
    /\ ret' = euclidean(a, b)
    /\ args' = [a |-> a, b |-> b]
    /\ op' = "euclidean"
    /\ pc' = "returned"
    /\ UNCHANGED globalChordDict
    /\ UNCHANGED appVars

\* One call subtract(a, b).
Subtract(a, b) ==
    /\ pc \in {"idle", "returned"}
    /\ ret' = Ok(subtract(a, b))
    /\ args' = [a |-> a, b |-> b]
    /\ op' = "subtract"
    /\ pc' = "returned"
    /\ UNCHANGED globalChordDict
    /\ UNCHANGED appVars

\* One call add(a, b).
Add(a, b) ==
    /\ pc \in {"idle", "returned"}
    /\ ret' = Ok(add(a, b))
    /\ args' = [a |-> a, b |-> b]
    /\ op' = "add"
    /\ pc' = "returned"
    /\ UNCHANGED globalChordDict
    /\ UNCHANGED appVars

\* The application: the dictionary is installed once at start-up, and each
\* behaviour then makes one call on it.
Next ==
    \/ /\ pc = "boot"
       /\ \E dict \in Dictionaries : SetChordDict(dict)
    \/ /\ pc = "idle"
       /\ \E req \in Requests :
               SubstitutePhrase(req.phrase, req.targets, req.strategy, req.k)
    \/ /\ pc = "idle"
       /\ \E targetZ \in Vectors, k \in KnnKs : Knn(targetZ, k)
    \/ /\ pc = "idle"
       /\ \E id \in LookupIds : GetChordById(id)
    \/ /\ pc = "idle"
       /\ \E a \in Vectors, b \in Vectors : Euclidean(a, b)
    \/ /\ pc = "idle"
       /\ \E a \in Vectors, b \in Vectors : Subtract(a, b)
    \/ /\ pc = "idle"
       /\ \E a \in Vectors, b \in Vectors : Add(a, b)

Spec == Init /\ [][Next]_vars

\* A session: the dictionary is installed and reloaded at any time, and
\* lookups and substitutions follow one another on whatever is installed.
SessionNext ==
    \/ /\ pc \in {"boot", "idle", "returned"}
       /\ \E dict \in SessionDictionaries : SetChordDict(dict)
    \/ /\ pc \in {"idle", "returned"}
       /\ \E req \in SessionRequests :
               SubstitutePhrase(req.phrase, req.targets, req.strategy, req.k)
    \/ /\ pc # "boot"
       /\ \E id \in LookupIds : GetChordById(id)
    \/ RepeatSubstitutePhrase
    \/ /\ pc = "returned" /\ op = "substitutePhrase"
       /\ args.strategy = "linear"
       /\ \E b \in PhraseIds, k \in VariedKs : VarySubstitutePhrase(b, k)

SpecSession == Init /\ [][SessionNext]_vars

\* The metric on its own: one euclidean call on any two vectors of the
\* domain, with no dictionary installed.
MetricInit ==
    /\ globalChordDict = <<>>
    /\ pc = "idle"
    /\ op = "none"
    /\ args = <<>>
    /\ ret = <<>>
    /\ originalPhrase = <<>>
    /\ selectedChordIndices = <<>>
    /\ transport = [state |-> "stopped", events |-> <<>>]

MetricNext ==
    /\ pc = "idle"
    /\ \E a \in MetricVectors, b \in MetricVectors : Euclidean(a, b)

SpecMetric == MetricInit /\ [][MetricNext]_vars

----------------------------------------------------------------------------
(* The application: phrase and selection state (App.vue script) *)

\* const strategy = ref('knn')
AppStrategy == "knn"

\* const k = ref(5)
AppK == 5

\* const selectedChordIndices = ref([2])
DefaultSelection == <<2>>

\* The longest phrase handed to handlePhraseUpdate.
MaxAppPhrase == 4

\* The chord file the application loads (data/chords_bach_all.json is not
\* part of the sources): one, two or three chords.
AppDictionaries == { Pick(S) : S \in {{1}, {1, 2}, {1, 2, 3}} }

\* demoPhrases[0].chordIds (data/phrases.json is not part of the sources):
\* the documented demo phrases have three or five chords.
DemoPhrases == UNION { [1..n -> {"a", "b"}] : n \in {3, 5} }

\* Phrases handed to handlePhraseUpdate, the empty one included.
AppPhrases == UNION { [1..n -> {"a", "b"}] : n \in 0..MaxAppPhrase }

\* [Math.floor(newPhraseIds.length / 2)]
MiddleSelection(newPhraseIds) == << Len(newPhraseIds) \div 2 >>

toggleChordSelectionMutAppends(selected, index) ==
    IF Len(selected) >= 1 /\ selected[1] = index.index
    THEN <<>>
    ELSE selected \o << index.index >>

\* selectedChordIndices.value[0] === index.index ? [] : [index.index]
\* (the [0] of an empty selection is undefined and equals no index).
toggleChordSelection(selected, index) ==
    IF Len(selected) >= 1 /\ selected[1] = index.index
    THEN <<>>
    ELSE << index.index >>

\* The watcher on [originalPhrase, selectedChordIndices, strategy, k]: one
\* substitutePhrase call with the values the refs now hold.  event is what
\* the handler that set the refs was given.
WatchSubstitution(handler, event, phrase, selection) ==
    /\ \E r \in {substitutePhrase(phrase, selection, AppStrategy, AppK)} :
          /\ ret' = r
          /\ \E point \in {RankingPoint(r)} :
                globalChordDict' = DictionaryAfterRanking(globalChordDict, point)
    /\ args' = [event |-> event,
                selectedBefore |-> selectedChordIndices,
                originalPhraseIds |-> phrase,
                targetIndices |-> selection,
                strategy |-> AppStrategy,
                k |-> AppK]
    /\ op' = handler

\* The script's setup after setChordDict(chordDict): the refs get their
\* initial values and the watcher runs at once ({ immediate: true }).
Setup(firstPhrase) ==
    /\ pc = "idle"
    /\ originalPhrase' = firstPhrase
    /\ selectedChordIndices' = DefaultSelection
    /\ WatchSubstitution("setup", [chordIds |-> firstPhrase],
                         firstPhrase, DefaultSelection)
    /\ pc' = "started"
    /\ UNCHANGED transport

HandlePhraseUpdate(newPhraseIds) ==
    /\ pc \in {"started", "updated", "toggled"}
    /\ originalPhrase' = newPhraseIds
    /\ selectedChordIndices' = MiddleSelection(newPhraseIds)
    /\ WatchSubstitution("handlePhraseUpdate", [newPhraseIds |-> newPhraseIds],
                         newPhraseIds, MiddleSelection(newPhraseIds))
    /\ pc' = "updated"
    /\ UNCHANGED transport

\* index is the payload of the score's select-chord event: the position of
\* the clicked chord and its identifier.
ToggleChordSelection(index) ==
    /\ pc \in {"started", "updated", "toggled"}
    /\ selectedChordIndices' = toggleChordSelection(selectedChordIndices, index)
    /\ WatchSubstitution("toggleChordSelection", index, originalPhrase,
                         toggleChordSelection(selectedChordIndices, index))
    /\ pc' = "toggled"
    /\ UNCHANGED <<originalPhrase, transport>>

AppNext ==
    \/ /\ pc = "boot"
       /\ \E chordDict \in AppDictionaries : SetChordDict(chordDict)
    \/ /\ pc = "idle"
       /\ \E firstPhrase \in DemoPhrases : Setup(firstPhrase)
    \/ /\ pc \in {"started", "updated", "toggled"}
       /\ \E newPhraseIds \in AppPhrases : HandlePhraseUpdate(newPhraseIds)
    \/ /\ pc \in {"started", "updated", "toggled"}
       /\ \E j \in 1..Len(originalPhrase) :
             ToggleChordSelection([index |-> j - 1,
                                   chordId |-> originalPhrase[j]])

SpecApp == Init /\ [][AppNext]_vars

----------------------------------------------------------------------------
(* Playback: the transport and its schedule (audioPlayback.js) *)

\* Tone.Time(CHORD_INTERVAL).toSeconds() with CHORD_INTERVAL = '0.5s', in
\* milliseconds.
ChordIntervalMs == 500

\* The longest phrase handed to playPhrase.
MaxPlayPhrase == 3

\* The chords playback looks up: one with notes, one whose pitchclass is
\* empty and one without a pitchclass.
PlaybackDictionary ==
    << [id |-> "a", z |-> <<0, 0>>, pitchclass |-> <<"C4", "E4", "G4">>],
       [id |-> "c", z |-> <<0, 2>>, pitchclass |-> <<>>],
       [id |-> "d", z |-> <<0, 0>>] >>

\* Identifiers of played phrases: those of the dictionary and an unknown one.
PlaybackIds == {"a", "c", "d", "x"}

PlaybackPhrases == UNION { [1..n -> PlaybackIds] : n \in 0..MaxPlayPhrase }

\* What a caller passes as the second argument of playPhrase: the lookup
\* function, or (App.vue's handlePlay, which passes three arguments) the
\* array of rhythms.
PlaybackCallbacks == {"getChordById", "currentRhythms"}

TransportCancelMutKeeps(t) == t

\* Tone.Transport.cancel(): every scheduled event is removed.
TransportCancel(t) == [t EXCEPT !.events = <<>>]

\* Tone.Transport.stop()
TransportStop(t) == [t EXCEPT !.state = "stopped"]

\* Tone.Transport.start()
TransportStart(t) == [t EXCEPT !.state = "started"]

\* Tone.Transport.schedule(callback, time): one more pending event.
TransportSchedule(t, time, notes) ==
    [t EXCEPT !.events = Append(@, [time |-> time, notes |-> notes])]

\* !chordData || !chordData.pitchclass || chordData.pitchclass.length === 0
SkippedChord(chordData) ==
    \/ ~Truthy(chordData)
    \/ "pitchclass" \notin DOMAIN chordData
    \/ Len(chordData.pitchclass) = 0

\* The forEach of playPhrase from 0-based position index on.
RECURSIVE ScheduleFrom(_, _, _)
ScheduleFrom(t, phraseIds, index) ==
    IF index >= Len(phraseIds) THEN t
    ELSE LET chordData == getChordById(phraseIds[index + 1])
         IN  IF SkippedChord(chordData)
             THEN ScheduleFrom(t, phraseIds, index + 1)
             ELSE ScheduleFrom(
                      TransportSchedule(t, index * ChordIntervalMs,
                                        chordData.pitchclass),
                      phraseIds, index + 1)

\* playPhrase(phraseIds, getChordById): stop, cancel, schedule, start.  A
\* second argument that is not a function throws at the first position,
\* after the cancel and before the start.
playPhrase(t, phraseIds, callback) ==
    LET cleared == TransportCancel(TransportStop(t))
    IN  IF callback # "getChordById" /\ Len(phraseIds) > 0
        THEN [err |-> "TypeError", transport |-> cleared]
        ELSE [err |-> "none",
              transport |-> TransportStart(ScheduleFrom(cleared, phraseIds, 0))]

\* stopPlayback(): stop and cancel.
stopPlayback(t) == TransportCancel(TransportStop(t))

PlayPhrase(phraseIds, callback) ==
    /\ \E r \in {playPhrase(transport, phraseIds, callback)} :
          /\ transport' = r.transport
          /\ ret' = IF r.err = "none" THEN Ok(undefined) ELSE Throw(r.err)
    /\ args' = [phraseIds |-> phraseIds, getChordById |-> callback,
                pendingBefore |-> Len(transport.events)]
    /\ op' = "playPhrase"
    /\ UNCHANGED <<globalChordDict, pc, originalPhrase, selectedChordIndices>>

StopPlayback ==
    /\ transport' = stopPlayback(transport)
    /\ ret' = Ok(undefined)
    /\ args' = [pendingBefore |-> Len(transport.events)]
    /\ op' = "stopPlayback"
    /\ UNCHANGED <<globalChordDict, pc, originalPhrase, selectedChordIndices>>

PlaybackInit ==
    /\ globalChordDict = PlaybackDictionary
    /\ pc = "idle"
    /\ op = "none"
    /\ args = <<>>
    /\ ret = <<>>
    /\ originalPhrase = <<>>
    /\ selectedChordIndices = <<>>
    /\ transport = [state |-> "stopped", events |-> <<>>]

PlaybackNext ==
    \/ \E phraseIds \in PlaybackPhrases, callback \in PlaybackCallbacks :
          PlayPhrase(phraseIds, callback)
    \/ StopPlayback

SpecPlayback == PlaybackInit /\ [][PlaybackNext]_vars

----------------------------------------------------------------------------
(* Vocabulary of the properties *)

\* A substitutePhrase call has returned (or thrown).
Substituted == pc = "returned" /\ op = "substitutePhrase"

\* A direct knn call has returned (or thrown).
Searched == pc = "returned" /\ op = "knn"

Returned == ret.err = "none"

Details == ret.val.substitutionDetails

Generated == ret.val.generatedPhraseIds

\* The "no-op" outcome: phrase as given, no context, no substituted id.
Declined ==
    /\ Returned
    /\ Generated = args.originalPhraseIds
    /\ Details.originalA = null
    /\ Details.originalB = null
    /\ Details.originalC = null
    /\ Details.substitutedChordId = nullId

\* The request names exactly one index and it is strictly interior.
OneInteriorTarget ==
    /\ Len(args.targetIndices) = 1
    /\ args.targetIndices[1] >= 1
    /\ args.targetIndices[1] <= Len(args.originalPhraseIds) - 2

\* The identifier at 0-based position j of the phrase is in the dictionary.
Known(j) ==
    \E p \in 1..Len(globalChordDict) :
        globalChordDict[p].id = args.originalPhraseIds[j + 1]

\* The three identifiers around the target are in the dictionary.
ContextKnown ==
    \A j \in (args.targetIndices[1] - 1)..(args.targetIndices[1] + 1) : Known(j)

\* Every identifier of the phrase is in the dictionary.
PhraseKnown == \A j \in 0..(Len(args.originalPhraseIds) - 1) : Known(j)

\* All vectors of the dictionary have one length.
Uniform ==
    \A p, q \in 1..Len(globalChordDict) :
        Len(globalChordDict[p].z) = Len(globalChordDict[q].z)

----------------------------------------------------------------------------
(* C1: a request that fails the validity gate (no index, two or more       *)
(* indices, or a single index that is not strictly interior) is declined,  *)
(* whatever the strategy name and k: the phrase comes back element for     *)
(* element and originalA, originalB, originalC and substitutedChordId are  *)
(* all null.                                                               *)
C1_GateFailureDeclines ==
    (Substituted /\ ~OneInteriorTarget) => Declined

\* A boundary index of a fully known phrase, under a real strategy.
C1_Witness ==
    /\ Substituted /\ Declined
    /\ Len(args.originalPhraseIds) = 3 /\ PhraseKnown
    /\ args.targetIndices = <<2>>
    /\ args.strategy = "knn" /\ args.k = 0 - 2

\* Two selected indices are declined as well.
C1_WitnessMulti ==
    /\ Substituted /\ Declined
    /\ Len(args.originalPhraseIds) = 3 /\ PhraseKnown
    /\ args.targetIndices = <<1, 2>>

(* C2: with one strictly interior target i, an unknown identifier at       *)
(* i-1, i or i+1 makes substitutePhrase decline.                           *)
C2_UnknownContextDeclines ==
    (Substituted /\ OneInteriorTarget /\ ~ContextKnown) => Declined

(* C3: whenever a substitution was performed at i, the recorded context is *)
(* the three chords around the target: originalA.id = phrase[i-1],         *)
(* originalB.id = phrase[i], originalC.id = phrase[i+1].                   *)
C3_ContextIsWindow ==
    (Substituted /\ Returned /\ Details.substitutedChordId # nullId) =>
        LET i == args.targetIndices[1]
        IN  /\ Details.originalA.id = args.originalPhraseIds[i]
            /\ Details.originalB.id = args.originalPhraseIds[i + 1]
            /\ Details.originalC.id = args.originalPhraseIds[i + 2]

(* C4: the output phrase is a copy of the input with at most position i    *)
(* overwritten: same length, equal to the input everywhere but at i, equal *)
(* to substitutedChordId at i when a substitution occurred; and the        *)
(* caller's array is as it was.                                            *)
C4_CopyWithOneOverwrite ==
    Substituted =>
        /\ args.phraseAfter = args.originalPhraseIds
        /\ Returned =>
            /\ Len(Generated) = Len(args.originalPhraseIds)
            /\ \A j \in 1..Len(Generated) :
                  (Len(args.targetIndices) = 0 \/ j # args.targetIndices[1] + 1)
                      => Generated[j] = args.originalPhraseIds[j]
            /\ Details.substitutedChordId # nullId =>
                  Generated[args.targetIndices[1] + 1] = Details.substitutedChordId

\* A substitution that changed the target.
C4_Witness ==
    /\ Substituted /\ Returned
    /\ Details.substitutedChordId # nullId
    /\ Generated # args.originalPhraseIds
    /\ Len(args.originalPhraseIds) = MaxPhrase

(* C5: on a request that passes the gate and whose context chords all      *)
(* resolve, an unrecognised strategy name does not raise, leaves the       *)
(* phrase as it was and records no geometry.                               *)
C5_UnknownStrategyIsNoOp ==
    (/\ Substituted /\ OneInteriorTarget /\ ContextKnown
     /\ args.strategy \notin {"linear", "knn", "angular"}) =>
        /\ Returned
        /\ Generated = args.originalPhraseIds
        /\ Details.geometricPoints = <<>>
        /\ Details.kNeighbors = <<>>

(* C6: against a dictionary whose vectors all have one length,             *)
(* substitutePhrase never raises: every call returns a record with         *)
(* generatedPhraseIds and substitutionDetails.                             *)
C6_NeverRaisesOnUniformDictionary ==
    (Substituted /\ Uniform) =>
        /\ Returned
        /\ DOMAIN ret.val = {"generatedPhraseIds", "substitutionDetails"}

\* A phrase with an unknown identifier, a real strategy, and a result.
C6_Witness ==
    /\ Substituted /\ Uniform /\ Returned
    /\ Len(globalChordDict) >= 2
    /\ ~PhraseKnown /\ OneInteriorTarget
    /\ args.strategy = "angular"

(* C7: with k <= 0 on an otherwise valid request, 'knn' and 'angular'      *)
(* record no neighbours and substitute B for itself, so the phrase is      *)
(* unchanged; nothing is raised.                                           *)
C7_NonPositiveKFallsBack ==
    (/\ Substituted /\ OneInteriorTarget /\ PhraseKnown /\ Uniform
     /\ args.k <= 0 /\ args.strategy \in {"knn", "angular"}) =>
        /\ Returned
        /\ Details.kNeighbors = <<>>
        /\ Details.substitutedChordId = Details.originalB.id
        /\ Generated = args.originalPhraseIds

----------------------------------------------------------------------------
(* Vocabulary of the neighbour-search properties, stated on the vectors    *)
(* themselves and not on the distance fields knn attaches.                 *)

\* Squared Euclidean distance of two vectors of one length.
DistSq(a, b) == SumTo([i \in 1..Len(a) |-> (a[i] - b[i]) * (a[i] - b[i])], Len(a))

\* Every dictionary vector has the length of the query vector.
Comparable ==
    \A p \in 1..Len(globalChordDict) :
        Len(globalChordDict[p].z) = Len(args.targetZ)

\* Positions of the dictionary that hold the chord an entry was copied from.
Origins(entry) ==
    { p \in 1..Len(globalChordDict) :
        globalChordDict[p].id = entry.id /\ globalChordDict[p].z = entry.z }

\* 1-based rank of dictionary position p in the distance ranking, ties in
\* dictionary order.
Rank(p) ==
    1 + Cardinality({ q \in 1..Len(globalChordDict) :
            \/ DistSq(args.targetZ, globalChordDict[q].z)
                 < DistSq(args.targetZ, globalChordDict[p].z)
            \/ /\ DistSq(args.targetZ, globalChordDict[q].z)
                   = DistSq(args.targetZ, globalChordDict[p].z)
               /\ q < p })

(* C8: kNearest(v, dict, k) never returns the source chord: when v is the  *)
(* z of a chord S of the dictionary, no entry of the result has S's id.    *)
C8_SourceExcluded ==
    (Searched /\ Returned) =>
        \A p \in 1..Len(globalChordDict) :
            globalChordDict[p].z = args.targetZ =>
                \A j \in 1..Len(ret.val) : ret.val[j].id # globalChordDict[p].id

(* C9: the list kNearest returns is in non-decreasing Euclidean distance   *)
(* to v, and entries at equal distance are in dictionary order.            *)
C9_OrderedStable ==
    (Searched /\ Returned) =>
        \A j \in 1..(Len(ret.val) - 1) :
            \/ DistSq(args.targetZ, ret.val[j].z)
                 < DistSq(args.targetZ, ret.val[j + 1].z)
            \/ /\ DistSq(args.targetZ, ret.val[j].z)
                   = DistSq(args.targetZ, ret.val[j + 1].z)
               /\ \A p \in Origins(ret.val[j]), q \in Origins(ret.val[j + 1]) :
                     p < q

\* Two entries at one distance were returned.
C9_Witness ==
    /\ Searched /\ Returned
    /\ \E j \in 1..(Len(ret.val) - 1) :
          DistSq(args.targetZ, ret.val[j].z)
            = DistSq(args.targetZ, ret.val[j + 1].z)
    /\ \E j \in 1..(Len(ret.val) - 1) :
          DistSq(args.targetZ, ret.val[j].z)
            < DistSq(args.targetZ, ret.val[j + 1].z)

(* C10: for k >= 0 and a dictionary of n chords kNearest returns, without  *)
(* raising, min(k, max(n-1, 0)) chords: those at positions 2..k+1 of the   *)
(* distance ranking.                                                       *)
C10_CountAndPositions ==
    (Searched /\ Comparable /\ args.k >= 0) =>
        /\ Returned
        /\ Len(ret.val) = Min(args.k, Max(Len(globalChordDict) - 1, 0))
        /\ \A j \in 1..Len(ret.val) :
              \E p \in Origins(ret.val[j]) : Rank(p) = j + 1

\* k exceeds what is available.
C10_Witness ==
    /\ Searched /\ Comparable /\ Returned
    /\ Len(globalChordDict) >= 3
    /\ args.k > Len(globalChordDict) - 1
    /\ Len(ret.val) = Len(globalChordDict) - 1

\* k is below what is available.
C10_WitnessFewer ==
    /\ Searched /\ Comparable /\ Returned
    /\ args.k >= 1
    /\ args.k < Len(globalChordDict) - 1
    /\ Len(ret.val) = args.k

----------------------------------------------------------------------------
(* Vocabulary of the strategy properties *)

\* A substitutePhrase call under `strategy` wrote a substitute.
Performed(strategy) ==
    /\ Substituted /\ Returned
    /\ args.strategy = strategy
    /\ Details.substitutedChordId # nullId

\* Dictionary position p is at least as near to point as position q, and
\* comes first when they are equally near.
NearerOrFirst(point, p, q) ==
    \/ DistSq(point, globalChordDict[p].z) < DistSq(point, globalChordDict[q].z)
    \/ /\ DistSq(point, globalChordDict[p].z) = DistSq(point, globalChordDict[q].z)
       /\ p <= q

\* The point halfway between two vectors.
Midpoint(a, c) == [j \in 1..Len(a) |-> (a[j] + c[j]) \div 2]

(* C11: under 'linear' the substitute is the dictionary chord nearest to    *)
(* M = 0.5*A.z + 0.5*C.z over the whole dictionary (A, B and C included),  *)
(* the first in dictionary order when several are equally near, and        *)
(* geometricPoints is [M].                                                 *)
C11_LinearNearestToMidpoint ==
    Performed("linear") =>
        LET M == Midpoint(Details.originalA.z, Details.originalC.z)
        IN  /\ Details.geometricPoints = <<M>>
            /\ \E p \in 1..Len(globalChordDict) :
                  /\ globalChordDict[p].id = Details.substitutedChordId
                  /\ \A q \in 1..Len(globalChordDict) : NearerOrFirst(M, p, q)

\* Two chords with different ids are equally near to M and nearer than any
\* other, and the first of them is a context chord.
C11_Witness ==
    /\ Performed("linear")
    /\ Details.originalA.id # Details.originalC.id
    /\ Details.substitutedChordId = Details.originalA.id
    /\ \E p, q \in 1..Len(globalChordDict) :
          /\ p < q
          /\ globalChordDict[p].id # globalChordDict[q].id
          /\ DistSq(Details.geometricPoints[1], globalChordDict[p].z)
               = DistSq(Details.geometricPoints[1], globalChordDict[q].z)
          /\ \A r \in 1..Len(globalChordDict) :
                DistSq(Details.geometricPoints[1], globalChordDict[p].z)
                  <= DistSq(Details.geometricPoints[1], globalChordDict[r].z)

\* 1-based rank of dictionary position p by distance to point, equally near
\* chords in dictionary order.
RankFrom(point, p) ==
    Cardinality({ q \in 1..Len(globalChordDict) : NearerOrFirst(point, q, p) })

\* list holds, in order, the chords at ranks 2, 3, ... from point.
RanksFromSecond(point, list) ==
    \A j \in 1..Len(list) :
        \E p \in Origins(list[j]) : RankFrom(point, p) = j + 1

(* C12: under 'knn' with a non-empty neighbour list the substitute is the  *)
(* id of kNeighbors[0], and kNeighbors is the whole ordered list           *)
(* kNearest(B.z, dictionary, k) it was chosen from: the chords at ranks    *)
(* 2, 3, ... from B.z, min(k, n-1) of them for k >= 1.                     *)
C12_KnnTakesFirstNeighbor ==
    (Performed("knn") /\ Details.kNeighbors # <<>>) =>
        /\ Details.substitutedChordId = Details.kNeighbors[1].id
        /\ RanksFromSecond(Details.originalB.z, Details.kNeighbors)
        /\ args.k >= 1 =>
              Len(Details.kNeighbors) = Min(args.k, Len(globalChordDict) - 1)

\* Two neighbours with different ids were recorded, and the phrase changed.
C12_Witness ==
    /\ Performed("knn")
    /\ args.k = 2
    /\ Len(Details.kNeighbors) = 2
    /\ Details.kNeighbors[1].id # Details.kNeighbors[2].id
    /\ Details.kNeighbors[1].id # Details.originalB.id
    /\ Len(globalChordDict) > 3

\* Inner product and difference of two vectors of one length.
Dot(u, v) == SumTo([j \in 1..Len(u) |-> u[j] * v[j]], Len(u))
Diff(u, v) == [j \in 1..Len(u) |-> u[j] - v[j]]

\* The angle between ref and u exists: neither is the zero vector.
HasAngle(ref, u) == Dot(ref, ref) > 0 /\ Dot(u, u) > 0

\* The angle between ref and u is smaller than the one between ref and v:
\* Dot(ref,u)/|u| > Dot(ref,v)/|v|, compared through the squares.
SmallerAngle(ref, u, v) ==
    LET x == Dot(ref, u)
        y == Dot(ref, v)
    IN  IF x >= 0 /\ y < 0 THEN TRUE
        ELSE IF x < 0 /\ y >= 0 THEN FALSE
        ELSE IF x >= 0 THEN x * x * Dot(v, v) > y * y * Dot(u, u)
        ELSE x * x * Dot(v, v) < y * y * Dot(u, u)

\* The reference direction B.z - A.z of the recorded context, and the
\* displacement of the j-th recorded neighbour from A.
Reference == Diff(Details.originalB.z, Details.originalA.z)
Displacement(j) == Diff(Details.kNeighbors[j].z, Details.originalA.z)

\* The recorded neighbours whose displacement has an angle with Reference.
Aligned ==
    { j \in 1..Len(Details.kNeighbors) : HasAngle(Reference, Displacement(j)) }

(* C13: under 'angular' the substitute is the candidate of                 *)
(* kNearest(B.z, dictionary, k) whose displacement from A makes the        *)
(* smallest angle with B.z - A.z, the first of the list among those that   *)
(* attain it; kNeighbors is the whole candidate list.                      *)
C13_AngularSmallestAngle ==
    (Performed("angular") /\ Aligned # {}) =>
        /\ \E j \in Aligned :
              /\ Details.substitutedChordId = Details.kNeighbors[j].id
              /\ \A m \in Aligned :
                    /\ ~SmallerAngle(Reference, Displacement(m), Displacement(j))
                    /\ m < j =>
                          SmallerAngle(Reference, Displacement(j), Displacement(m))
        /\ RanksFromSecond(Details.originalB.z, Details.kNeighbors)
        /\ args.k >= 1 =>
              Len(Details.kNeighbors) = Min(args.k, Len(globalChordDict) - 1)

\* Two candidates with different ids attain the smallest angle and the
\* first of them is the substitute.
C13_Witness ==
    /\ Performed("angular")
    /\ \E j, m \in Aligned :
          /\ j < m
          /\ Details.kNeighbors[j].id # Details.kNeighbors[m].id
          /\ Details.substitutedChordId = Details.kNeighbors[j].id
          /\ ~SmallerAngle(Reference, Displacement(j), Displacement(m))
          /\ ~SmallerAngle(Reference, Displacement(m), Displacement(j))
          /\ \A n \in Aligned :
                ~SmallerAngle(Reference, Displacement(n), Displacement(j))

\* The best aligned candidate is not the nearest one.
C13_WitnessNotNearest ==
    /\ Performed("angular")
    /\ 1 \in Aligned /\ 2 \in Aligned
    /\ SmallerAngle(Reference, Displacement(2), Displacement(1))
    /\ Details.substitutedChordId = Details.kNeighbors[2].id
    /\ Details.kNeighbors[2].id # Details.kNeighbors[1].id

(* C14: when the neighbour search has no candidates (the dictionary holds  *)
(* B alone), 'knn' and 'angular' both substitute B for itself: the         *)
(* substitute is B's id, kNeighbors is empty and the output phrase equals  *)
(* the input phrase.                                                       *)
C14_NoCandidatesKeepsTarget ==
    (/\ Substituted /\ Returned
     /\ args.strategy \in {"knn", "angular"}
     /\ Details.substitutedChordId # nullId
     /\ Len(globalChordDict) <= 1) =>
        /\ Details.substitutedChordId = Details.originalB.id
        /\ Details.kNeighbors = <<>>
        /\ Generated = args.originalPhraseIds

\* The same statement on phrases without unknown identifiers.
C14_OnKnownPhrases ==
    (Substituted /\ PhraseKnown) => C14_NoCandidatesKeepsTarget

\* Both strategies reach the fallback on a one-chord dictionary.
C14_KnownWitness ==
    /\ Substituted /\ Returned /\ PhraseKnown
    /\ args.strategy = "knn" /\ args.k = 2
    /\ Details.substitutedChordId # nullId
    /\ Details.substitutedChordId = Details.originalB.id
    /\ Len(globalChordDict) = 1

----------------------------------------------------------------------------
(* Vocabulary of the dictionary properties *)

\* A direct getChordById call has returned.
Looked == pc = "returned" /\ op = "getChordById"

\* Dictionary positions whose chord carries id.
Carriers(id) == { p \in 1..Len(globalChordDict) : globalChordDict[p].id = id }

C15_WitnessUnknown ==
    /\ Looked /\ Returned
    /\ globalChordDict # <<>>
    /\ Carriers(args.id) = {}
    /\ ret.val = undefined

\* The chords of the installed dictionary.
Installed == { globalChordDict[p] : p \in 1..Len(globalChordDict) }

\* Every chord a returned substitutePhrase call names is of the installed
\* dictionary: the context, the substitute and the recorded neighbours.
NamesInstalledOnly ==
    Details.substitutedChordId # nullId =>
        /\ {Details.originalA, Details.originalB, Details.originalC}
              \subseteq Installed
        /\ Carriers(Details.substitutedChordId) # {}
        /\ \A j \in 1..Len(Details.kNeighbors) :
              Origins(Details.kNeighbors[j]) # {}

(* C16: setChordDict replaces the dictionary as a whole: after any         *)
(* sequence of installs the dictionary is the collection passed last, and  *)
(* every later getChordById and substitutePhrase reads exactly that one,   *)
(* so no chord that is only in an earlier dictionary is looked up or       *)
(* returned.                                                               *)
C16_ReloadReplaces ==
    [][ /\ op' = "setChordDict" => globalChordDict' = args'.dict
        /\ pc' = "returned" => globalChordDict' = globalChordDict
        /\ Looked' => (ret'.val = undefined \/ ret'.val \in Installed')
        /\ (Substituted' /\ Returned') => NamesInstalledOnly' ]_vars

\* A reload has just dropped a chord of the dictionary it replaced.
C16_Witness ==
    /\ op = "setChordDict"
    /\ globalChordDict = args.dict
    /\ args.replaced # <<>>
    /\ \E p \in 1..Len(args.replaced) : args.replaced[p] \notin Installed
    /\ globalChordDict # <<>>

Malformed(dict) ==
    \E p, q \in 1..Len(dict) : Len(dict[p].z) # Len(dict[q].z)

(* C18: setChordDict rejects malformed input at load time: a collection    *)
(* with a row whose vector has another length than the others is not       *)
(* installed, the call raises instead.                                     *)
C18_MalformedDictionaryRejected ==
    (op = "setChordDict" /\ Malformed(args.dict)) =>
        /\ ret.err # "none"
        /\ globalChordDict = args.replaced

----------------------------------------------------------------------------
(* Vocabulary of the vector properties *)

\* A direct subtract or add call has returned.
Combined == pc = "returned" /\ op \in {"subtract", "add"}

\* A direct euclidean call has returned (or thrown).
Measured == pc = "returned" /\ op = "euclidean"

(* C19: subtract(a, b) and add(a, b) fail with DimensionMismatch when the  *)
(* lengths differ, in both directions; they never return a truncated or    *)
(* partly undefined vector.                                                *)
C19_UnequalLengthsRaise ==
    (Combined /\ Len(args.a) # Len(args.b)) =>
        ret.err = "DimensionMismatch"

\* What is returned instead when a is the longer: NaN past the end of b.
C19_ReachedPartlyUndefined ==
    /\ Combined /\ Returned
    /\ Len(args.a) > Len(args.b)
    /\ Len(ret.val) = Len(args.a)
    /\ ret.val[Len(ret.val)] = NaN

\* What is returned instead when a is the shorter: b cut to a's length.
C19_ReachedTruncated ==
    /\ Combined /\ Returned
    /\ Len(args.a) < Len(args.b)
    /\ Len(ret.val) = Len(args.a)

(* C20: euclidean raises when the lengths of a and b differ, and the error *)
(* reaches the caller: a kNearest query, and a substitutePhrase call under *)
(* 'knn', 'linear' or 'angular' that passes the gate, abort with that      *)
(* error when they compare vectors of unequal length.                      *)
C20_DimensionErrorSurfaces ==
    /\ (Measured /\ Len(args.a) # Len(args.b)) =>
          ret.err = "DimensionMismatch"
    /\ (Searched /\ ~Comparable) =>
          ret.err = "DimensionMismatch"
    /\ (/\ Substituted /\ ~Uniform
        /\ args.strategy \in {"knn", "linear", "angular"}) =>
          /\ ret.err = "DimensionMismatch" \/ Declined
          /\ (OneInteriorTarget /\ PhraseKnown) =>
                ret.err = "DimensionMismatch"

\* A valid 'linear' request aborted on a dictionary with one odd row.
C20_Witness ==
    /\ Substituted /\ ~Uniform
    /\ args.strategy = "linear"
    /\ OneInteriorTarget /\ PhraseKnown
    /\ Len(globalChordDict) = MaxDict
    /\ ret.err = "DimensionMismatch"

\* A direct query aborted although only the last chord has another length.
C20_WitnessQuery ==
    /\ Searched /\ ~Comparable
    /\ Len(globalChordDict) >= 3
    /\ \A p \in 1..(Len(globalChordDict) - 1) :
          Len(globalChordDict[p].z) = Len(args.targetZ)
    /\ ret.err = "DimensionMismatch"

----------------------------------------------------------------------------
(* Vocabulary of the two-call properties *)

\* The substitutePhrase call that had returned was made a second time.
Repeated == pc = "repeated"

(* C21: declining is idempotent and deterministic: the same gate-failing   *)
(* request made twice against the same dictionary returns two results      *)
(* equal field for field (the phrase as given, the strategy, null context  *)
(* and substitute, no points, no neighbours), and the first call leaves    *)
(* nothing behind that the second could see.                               *)
C21_DeclineIdempotent ==
    (Repeated /\ ~OneInteriorTarget) =>
        /\ args.originalPhraseIds = args.given
        /\ ret = args.first
        /\ Declined
        /\ Generated = args.given
        /\ Details.strategy = args.strategy
        /\ Details.geometricPoints = <<>>
        /\ Details.kNeighbors = <<>>

\* Two selected indices, declined twice, after the dictionary was loaded.
C21_Witness ==
    /\ Repeated /\ ~OneInteriorTarget
    /\ args.targetIndices = <<1, 2>>
    /\ args.strategy = "knn"
    /\ Len(globalChordDict) = 2
    /\ ret = args.first
    /\ Declined

----------------------------------------------------------------------------
(* C22: for vectors a and b of one length, euclidean(a, a) = 0,            *)
(* euclidean(a, b) = euclidean(b, a) and euclidean(a, b) >= 0, on the      *)
(* squared distance.                                                       *)
C22_MetricLaws ==
    (Measured /\ Len(args.a) = Len(args.b)) =>
        /\ Returned
        /\ ret.val >= 0
        /\ ret = euclidean(args.b, args.a)
        /\ args.a = args.b => ret.val = 0

\* Two different vectors of the largest length with coordinates of both
\* signs, in the order that makes the signed differences sum below zero.
C22_Witness ==
    /\ Measured /\ Returned
    /\ Len(args.a) = MaxDim /\ Len(args.b) = MaxDim
    /\ args.a[1] < 0 /\ args.b[1] > 0
    /\ args.a[MaxDim] < args.b[MaxDim]
    /\ ret.val > 0

----------------------------------------------------------------------------
(* C23: under 'angular' an undefined angle is never preferred: while some  *)
(* candidate has a defined angle the substitute is one of those (never a   *)
(* candidate lying on A), and when no candidate has one (as when           *)
(* A.z = B.z) the substitute is B's id while kNeighbors still lists all    *)
(* the candidates.                                                         *)
C23_UndefinedAngleNeverPreferred ==
    Performed("angular") =>
        /\ Aligned # {} =>
              /\ \E j \in Aligned :
                    Details.substitutedChordId = Details.kNeighbors[j].id
              /\ (\A j, m \in 1..Len(Details.kNeighbors) :
                      j # m => Details.kNeighbors[j].id # Details.kNeighbors[m].id)
                    => \A j \in 1..Len(Details.kNeighbors) :
                          j \notin Aligned =>
                              Details.substitutedChordId # Details.kNeighbors[j].id
        /\ Aligned = {} =>
              /\ Details.substitutedChordId = Details.originalB.id
              /\ RanksFromSecond(Details.originalB.z, Details.kNeighbors)
              /\ args.k >= 1 =>
                    Len(Details.kNeighbors) = Min(args.k, Len(globalChordDict) - 1)

\* The nearest candidate lies on A and the second, further away, is taken.
C23_Witness ==
    /\ Performed("angular")
    /\ Len(Details.kNeighbors) >= 2
    /\ Details.kNeighbors[1].z = Details.originalA.z
    /\ 2 \in Aligned
    /\ Details.substitutedChordId = Details.kNeighbors[2].id
    /\ Details.kNeighbors[2].id # Details.kNeighbors[1].id

\* A lies on B: no angle is defined, B stays, two candidates are listed.
C23_WitnessNoDirection ==
    /\ Performed("angular")
    /\ Details.originalA.z = Details.originalB.z
    /\ args.k = 2 /\ Len(Details.kNeighbors) = 2
    /\ Details.substitutedChordId = Details.originalB.id
    /\ \A j \in 1..2 : Details.kNeighbors[j].id # Details.originalB.id

----------------------------------------------------------------------------
(* C24: the shape of every returned record: substitutedChordId is null     *)
(* exactly when originalA, originalB and originalC are all null, and then  *)
(* the phrase is the input and there are no points and no neighbours;      *)
(* otherwise the three context fields and the substitute are all non-null  *)
(* and generatedPhraseIds[i] is the substitute.  So a declined request     *)
(* differs from a substitution that mapped B to itself.                    *)
C24_ResultShape ==
    (Substituted /\ Returned) =>
        LET context == {Details.originalA, Details.originalB, Details.originalC}
        IN  /\ Details.substitutedChordId = nullId <=> context = {null}
            /\ Details.substitutedChordId = nullId =>
                  /\ Generated = args.originalPhraseIds
                  /\ Details.geometricPoints = <<>>
                  /\ Details.kNeighbors = <<>>
            /\ Details.substitutedChordId # nullId =>
                  /\ null \notin context /\ undefined \notin context
                  /\ Generated[args.targetIndices[1] + 1]
                       = Details.substitutedChordId

\* B was mapped to itself: the phrase is unchanged and the record says a
\* substitution took place.
C24_Witness ==
    /\ Performed("knn")
    /\ Generated = args.originalPhraseIds
    /\ Details.substitutedChordId = Details.originalB.id
    /\ Details.originalA # null /\ Details.originalC # null

\* The same under a strategy name the dispatch does not know.
C24_WitnessUnknownStrategy ==
    /\ Performed("nearest")
    /\ Generated = args.originalPhraseIds

----------------------------------------------------------------------------
(* C25: every id substitutePhrase writes into the output phrase is the id  *)
(* of a chord of the installed dictionary, and every entry of kNeighbors   *)
(* has the id and the z of a chord of the dictionary.                      *)
C25_WritesDictionaryIdsOnly ==
    (Substituted /\ Returned /\ Details.substitutedChordId # nullId) =>
        /\ Carriers(Generated[args.targetIndices[1] + 1]) # {}
        /\ Carriers(Details.substitutedChordId) # {}
        /\ \A j \in 1..Len(Details.kNeighbors) :
              \E p \in 1..Len(globalChordDict) :
                  /\ globalChordDict[p].id = Details.kNeighbors[j].id
                  /\ globalChordDict[p].z = Details.kNeighbors[j].z

\* A phrase with an identifier of no chord at the target's place in the
\* given phrase: what is written there is a chord's id, and neighbours
\* were recorded.
C25_Witness ==
    /\ Performed("angular")
    /\ Carriers(args.originalPhraseIds[args.targetIndices[1] + 1]) = {}
    /\ Details.kNeighbors # <<>>
    /\ Details.substitutedChordId # Details.originalB.id

----------------------------------------------------------------------------
\* No two chords of the dictionary share an id or a vector.
AllDistinct ==
    \A p, q \in 1..Len(globalChordDict) :
        p # q => /\ globalChordDict[p].id # globalChordDict[q].id
                 /\ globalChordDict[p].z # globalChordDict[q].z

(* C26: on a dictionary of two or more chords with unique ids and pairwise *)
(* distinct vectors, a 'knn' substitution with k >= 1 always changes the   *)
(* target: the substitute differs from B's id and is the id of the chord   *)
(* closest to B among all the others.                                      *)
C26_KnnChangesTarget ==
    (/\ Performed("knn") /\ args.k >= 1
     /\ Len(globalChordDict) >= 2 /\ AllDistinct) =>
        /\ Details.substitutedChordId # Details.originalB.id
        /\ \E p \in Carriers(Details.substitutedChordId) :
              \A q \in 1..Len(globalChordDict) :
                  globalChordDict[q] # Details.originalB =>
                      DistSq(Details.originalB.z, globalChordDict[p].z)
                        <= DistSq(Details.originalB.z, globalChordDict[q].z)

\* Three other chords at three different distances from B.
C26_Witness ==
    /\ Performed("knn") /\ args.k >= 1
    /\ Len(globalChordDict) = 4 /\ AllDistinct
    /\ Generated # args.originalPhraseIds
    /\ \A p, q \in 1..Len(globalChordDict) :
          p # q => DistSq(Details.originalB.z, globalChordDict[p].z)
                     # DistSq(Details.originalB.z, globalChordDict[q].z)

----------------------------------------------------------------------------
\* A substitutePhrase call that had returned was made again with another
\* target chord and another k.
Varied == pc = "varied"

\* The identifiers of the phrase given to the first call are all known.
GivenKnown ==
    \A j \in 1..Len(args.given) : Carriers(args.given[j]) # {}

\* The second call's record agrees with the first's in what 'linear'
\* computes.
SameLinearOutcome ==
    /\ ret.err = args.first.err
    /\ Returned =>
          /\ Details.substitutedChordId
               = args.first.val.substitutionDetails.substitutedChordId
          /\ Details.geometricPoints
               = args.first.val.substitutionDetails.geometricPoints
          /\ Details.kNeighbors = <<>>
          /\ args.first.val.substitutionDetails.kNeighbors = <<>>

(* C27: 'linear' depends only on A, C and the dictionary: two calls on one *)
(* dictionary whose phrases have the same chords at i-1 and i+1 and differ *)
(* in the target chord at i and in params.k return the same                *)
(* substitutedChordId and geometricPoints, with kNeighbors empty in both.  *)
C27_LinearIgnoresTargetAndK ==
    (/\ Varied /\ args.strategy = "linear"
     /\ OneInteriorTarget /\ ContextKnown
     /\ Carriers(args.given[args.targetIndices[1] + 1]) # {}) =>
        SameLinearOutcome

\* The same statement on phrases without unknown identifiers.
C27_OnKnownPhrases ==
    (/\ Varied /\ args.strategy = "linear"
     /\ OneInteriorTarget /\ PhraseKnown /\ GivenKnown) =>
        SameLinearOutcome

\* Both calls substituted, with different targets and different k.
C27_KnownWitness ==
    /\ Varied /\ args.strategy = "linear"
    /\ OneInteriorTarget /\ PhraseKnown /\ GivenKnown
    /\ Returned
    /\ Details.substitutedChordId # nullId
    /\ args.originalPhraseIds # args.given
    /\ args.k # args.givenK
    /\ Details.originalA.id # Details.originalC.id

----------------------------------------------------------------------------
(* The application's selection *)

Started == pc = "started"

Updated == pc = "updated"

Toggled == pc = "toggled"

\* 0-based position j lies strictly inside a phrase of n chords.
Interior(j, n) == j >= 1 /\ j <= n - 2

\* C28: after start-up and any sequence of toggleChordSelection and
\* handlePhraseUpdate events the selection holds at most one index; a toggle
\* of the selected index leaves the selection empty and a toggle of any
\* other index leaves exactly that index; handlePhraseUpdate(ids) leaves the
\* single index floor(len(ids) / 2), which for len(ids) >= 3 is strictly
\* interior, and the substitutePhrase call that follows is made with it.
C28_SelectionInvariant ==
    /\ Len(selectedChordIndices) <= 1
    /\ Toggled =>
          /\ (args.selectedBefore = << args.event.index >>
                => selectedChordIndices = <<>>)
          /\ (args.selectedBefore # << args.event.index >>
                => selectedChordIndices = << args.event.index >>)
    /\ Updated =>
          /\ Len(selectedChordIndices) = 1
          /\ 2 * selectedChordIndices[1] <= Len(args.event.newPhraseIds)
          /\ 2 * selectedChordIndices[1] + 1 >= Len(args.event.newPhraseIds)
          /\ args.targetIndices = selectedChordIndices
          /\ args.originalPhraseIds = args.event.newPhraseIds
          /\ (Len(args.event.newPhraseIds) >= 3
                => Interior(selectedChordIndices[1],
                            Len(args.event.newPhraseIds)))

\* A selected chord is toggled off, after a phrase update and a toggle of
\* another chord.
C28_Witness ==
    /\ Toggled
    /\ args.selectedBefore = << args.event.index >>
    /\ args.event.index # Len(originalPhrase) \div 2
    /\ selectedChordIndices = <<>>
    /\ Len(originalPhrase) = MaxAppPhrase

\* A toggle of a chord other than the selected one.
C28_WitnessOther ==
    /\ Toggled
    /\ Len(args.selectedBefore) = 1
    /\ args.selectedBefore # << args.event.index >>
    /\ selectedChordIndices = << args.event.index >>

\* A phrase update on three or more chords, whose substitution went through.
C28_WitnessUpdate ==
    /\ Updated
    /\ Len(originalPhrase) >= 3
    /\ Returned
    /\ Details.substitutedChordId # nullId

\* C29: at start-up the selection is the middle chord of the loaded phrase
\* (index 1 of three chords, index 2 of five), and the first substitutePhrase
\* call of the application targets a strictly interior position.
C29_DefaultSelectionIsMiddle ==
    Started =>
        /\ selectedChordIndices = << Len(originalPhrase) \div 2 >>
        /\ args.targetIndices = selectedChordIndices
        /\ Interior(args.targetIndices[1], Len(args.originalPhraseIds))

\* The same on the five-chord demo phrases alone.
C29_OnFiveChordPhrases ==
    (Started /\ Len(originalPhrase) = 5) =>
        /\ selectedChordIndices = << Len(originalPhrase) \div 2 >>
        /\ args.targetIndices = selectedChordIndices
        /\ Interior(args.targetIndices[1], Len(args.originalPhraseIds))

\* Start-up on a three-chord phrase: the last chord is selected and the
\* first call declines.
C29_ThreeChordStart ==
    /\ Started
    /\ Len(originalPhrase) = 3
    /\ selectedChordIndices = <<2>>
    /\ Declined

----------------------------------------------------------------------------
(* Playback scheduling *)

Played == op = "playPhrase"

Stopped == op = "stopPlayback"

\* Position j (0-based) of the played phrase resolves, through the lookup
\* function, to a chord with a non-empty pitchclass.
Resolves(j) ==
    /\ args.getChordById = "getChordById"
    /\ \E p \in 1..Len(globalChordDict) :
          /\ globalChordDict[p].id = args.phraseIds[j + 1]
          /\ \A q \in 1..(p - 1) : globalChordDict[q].id # args.phraseIds[j + 1]
          /\ "pitchclass" \in DOMAIN globalChordDict[p]
          /\ globalChordDict[p].pitchclass # <<>>

\* The pending events at the start time of position j.
EventsAt(j) ==
    { e \in 1..Len(transport.events) :
         transport.events[e].time = j * ChordIntervalMs }

\* C30: after any sequence of playPhrase and stopPlayback calls the pending
\* events are those of the last playPhrase alone, and none after a
\* stopPlayback: every position of the last played phrase whose chord
\* resolves with a non-empty pitchclass has exactly one event, at
\* index * 0.5 s, a position that does not resolve has none, and there are
\* no other events.
C30_ScheduleReplaces ==
    /\ Stopped => transport.events = <<>>
    /\ Played =>
          /\ \A j \in 0..(Len(args.phraseIds) - 1) :
                Cardinality(EventsAt(j)) = IF Resolves(j) THEN 1 ELSE 0
          /\ \A e \in 1..Len(transport.events) :
                \E j \in 0..(Len(args.phraseIds) - 1) : e \in EventsAt(j)

\* A phrase is played over pending events of an earlier one; its middle
\* chord is skipped and the chord after it keeps its time.
C30_Witness ==
    /\ Played
    /\ args.pendingBefore = MaxPlayPhrase
    /\ Len(args.phraseIds) = 3
    /\ Resolves(0) /\ ~Resolves(1) /\ Resolves(2)
    /\ Len(transport.events) = 2
    /\ transport.events[2].time = 2 * ChordIntervalMs

\* stopPlayback with events pending.
C30_WitnessStop ==
    /\ Stopped
    /\ args.pendingBefore > 0
    /\ transport.events = <<>>

\* playPhrase as App.vue's handlePlay calls it (the rhythms in the place of
\* the lookup): the call throws with the schedule cleared.
C30_WitnessNoLookup ==
    /\ Played
    /\ args.getChordById = "currentRhythms"
    /\ args.pendingBefore > 0
    /\ ret.err = "TypeError"
    /\ transport = [state |-> "stopped", events |-> <<>>]

====
